---- MODULE Spec2Model ----
(***************************************************************************)
(* Breakfast menu widget: the Index page (catalog, categories, selection), *)
(* the OrderSummary aggregate, the AddItemDialog form and the two category *)
(* sections, MenuCategoryView and MenuCarousel.                            *)
(*                                                                         *)
(* React state (useState) is modelled by one variable per state cell.      *)
(* `view` is the snapshot the last render pass was produced from: event    *)
(* handlers read their closure values (menu, categories) from it, while    *)
(* functional updaters (setX(cur => ...)) are applied to the committed     *)
(* state.  In Spec every handler runs to completion and React re-renders   *)
(* before the next event is dispatched, so the render is the tail of each  *)
(* action.                                                                 *)
(***************************************************************************)
EXTENDS Integers, Sequences, FiniteSets, TLC

VARIABLES
    menuData,           \* the imported startup catalog (menu.json)
    initialized,        \* the mount effect has run
    menu,               \* useState<MenuItem[]>        (Index)
    selectedItems,      \* useState<MenuItem[]>        (Index)
    categories,         \* useState<string[]>          (Index)
    addItemDialogOpen,  \* useState(false)             (Index)
    name,               \* useState('')                (AddItemDialog)
    price,              \* useState(''), a raw string  (AddItemDialog)
    category,           \* useState('')                (AddItemDialog)
    iconName,           \* useState('')                (AddItemDialog)
    selectedIcon,       \* useState(default glyph)     (AddItemDialog)
    toast,              \* the last message handed to the notification sink
    view,               \* what the last render pass displayed
    oddToggled,         \* history: ids toggled an odd number of times
    lastSubmit,         \* history: outcome of the last handleSubmit call
    isMobile,           \* useIsMobile()               (Index)
    activeIndex,        \* useState(0) of the MenuCarousel of each category
    nextRun             \* history: per carousel, the number of goToNext calls
                        \* made in a row since activeIndex was 0 (-1: no
                        \* such run is in progress)

vars == <<menuData, initialized, menu, selectedItems, categories,
          addItemDialogOpen, name, price, category, iconName, selectedIcon,
          toast, view, oddToggled, lastSubmit, isMobile, activeIndex,
          nextRun>>

formVars == <<name, price, category, iconName, selectedIcon>>

histVars == <<oddToggled, lastSubmit>>

carouselVars == <<isMobile, activeIndex, nextRun>>

----------------------------------------------------------------------------
(* Bounds *)

MaxAdds == 1       \* entries appended at runtime
MaxDraftAdds == 2  \* the same, in the sessions that only fill in drafts
MaxSides == 7      \* entries of one category in the catalog a carousel is given
MaxNexts == 3      \* length of a run of goToNext calls that nextRun counts

----------------------------------------------------------------------------
(* Generic helpers *)

Range(s) == {s[i] : i \in 1..Len(s)}

Drop(s, n) == SubSeq(s, n + 1, Len(s))

StartsWith(s, p) == Len(s) >= Len(p) /\ SubSeq(s, 1, Len(p)) = p

----------------------------------------------------------------------------
(* JavaScript numbers.  A finite value is kept in hundredths; the three    *)
(* non-finite doubles are kept as such.                                    *)

Scale == 100

Fin(v)  == [kind |-> "fin", v |-> v]
PosInf  == [kind |-> "inf", v |-> 1]
NegInf  == [kind |-> "inf", v |-> -1]
NaN     == [kind |-> "nan", v |-> 0]

isNaN(x) == x.kind = "nan"

\* IEEE-754 addition on the representation above
JsAdd(a, b) ==
    IF a.kind = "nan" \/ b.kind = "nan" THEN NaN
    ELSE IF a.kind = "inf" /\ b.kind = "inf"
         THEN (IF a.v = b.v THEN a ELSE NaN)
    ELSE IF a.kind = "inf" THEN a
    ELSE IF b.kind = "inf" THEN b
    ELSE Fin(a.v + b.v)

----------------------------------------------------------------------------
(* parseFloat (ECMA-262 21.1.2.12 / StrDecimalLiteral): skip leading white *)
(* space, read the longest prefix that is a decimal literal, ignore what   *)
(* follows it, NaN when there is no such prefix.  A string is a sequence   *)
(* of one-character strings.                                               *)

DigitChars == {"0", "1", "2", "3", "4", "5", "6", "7", "8", "9"}

DigitVal(c) ==
    CASE c = "0" -> 0 [] c = "1" -> 1 [] c = "2" -> 2 [] c = "3" -> 3
      [] c = "4" -> 4 [] c = "5" -> 5 [] c = "6" -> 6 [] c = "7" -> 7
      [] c = "8" -> 8 [] c = "9" -> 9

InfinityLiteral == <<"I", "n", "f", "i", "n", "i", "t", "y">>

MaxExp10 == 308    \* largest decimal exponent of a finite double

RECURSIVE TrimStart(_)
TrimStart(s) ==
    IF s # <<>> /\ Head(s) = " " THEN TrimStart(Tail(s)) ELSE s

\* number of leading digit characters of s
RECURSIVE NumDigits(_)
NumDigits(s) ==
    IF s # <<>> /\ Head(s) \in DigitChars THEN 1 + NumDigits(Tail(s)) ELSE 0

\* value of the first n characters of s, all digits
RECURSIVE DigitsValue(_, _)
DigitsValue(s, n) ==
    IF n = 0 THEN 0 ELSE DigitsValue(s, n - 1) * 10 + DigitVal(s[n])

RECURSIVE Pow10(_)
Pow10(e) == IF e = 0 THEN 1 ELSE 10 * Pow10(e - 1)

\* the first two fraction digits, in hundredths (further digits are below
\* the resolution of the representation)
FractionValue(f, nf) ==
    (IF nf >= 1 THEN 10 * DigitVal(f[1]) ELSE 0)
  + (IF nf >= 2 THEN DigitVal(f[2]) ELSE 0)

\* mantissa m (hundredths, non-negative) times 10^e, with sign sgn
ApplyExponent(sgn, m, e) ==
    IF m = 0 THEN Fin(0)
    ELSE IF e > MaxExp10 THEN [kind |-> "inf", v |-> sgn]
    ELSE IF e >= 0 THEN Fin(sgn * m * Pow10(e))
    ELSE IF -e > MaxExp10 THEN Fin(0)
    ELSE Fin(sgn * (m \div Pow10(-e)))

ParseFloat(str) ==
    LET t      == TrimStart(str)
        signed == t # <<>> /\ Head(t) \in {"+", "-"}
        sgn    == IF t # <<>> /\ Head(t) = "-" THEN -1 ELSE 1
        u      == IF signed THEN Tail(t) ELSE t
    IN  IF StartsWith(u, InfinityLiteral) THEN [kind |-> "inf", v |-> sgn]
        ELSE
        LET ni       == NumDigits(u)
            afterInt == Drop(u, ni)
            hasDot   == afterInt # <<>> /\ Head(afterInt) = "."
            frac     == IF hasDot THEN Tail(afterInt) ELSE <<>>
            nf       == NumDigits(frac)
            mant     == DigitsValue(u, ni) * Scale + FractionValue(frac, nf)
            rest     == IF hasDot THEN Drop(frac, nf) ELSE afterInt
            hasE     == rest # <<>> /\ Head(rest) \in {"e", "E"}
            afterE   == IF hasE THEN Tail(rest) ELSE <<>>
            eSigned  == afterE # <<>> /\ Head(afterE) \in {"+", "-"}
            eSgn     == IF afterE # <<>> /\ Head(afterE) = "-" THEN -1 ELSE 1
            eDigits  == IF eSigned THEN Tail(afterE) ELSE afterE
            ne       == NumDigits(eDigits)
            expo     == IF ne = 0 THEN 0 ELSE eSgn * DigitsValue(eDigits, ne)
        IN  IF ni = 0 /\ nf = 0 THEN NaN
            ELSE ApplyExponent(sgn, mant, expo)

----------------------------------------------------------------------------
(* Inputs *)

\* records of the startup catalog; `id` is what identifies a record
StartEntry(id) ==
    CASE id = 1 -> [id |-> 1, name |-> "Coffee", price |-> Fin(300),
                    category |-> "Drinks", icon |-> "U+2615",
                    iconName |-> "coffee"]
      [] id = 2 -> [id |-> 2, name |-> "Croissant", price |-> Fin(250),
                    category |-> "Pastries", icon |-> "U+1F36A",
                    iconName |-> "cookie"]
      [] id = 5 -> [id |-> 5, name |-> "Juice", price |-> Fin(425),
                    category |-> "Drinks", icon |-> "U+1F964",
                    iconName |-> "cup-soda"]

\* the startup catalogs enumerated: empty, with a gap in the ids, out of
\* order, and with a repeated id
StartupCatalogs ==
    { <<>>,
      <<StartEntry(2)>>,
      <<StartEntry(5), StartEntry(2)>>,
      <<StartEntry(5), StartEntry(5)>> }

\* a startup record of the category "Sides"
SideEntry(id) ==
    [id |-> id, name |-> "Side", price |-> Fin(100 + id), category |-> "Sides",
     icon |-> "U+1F95E", iconName |-> "pancake"]

SideCatalog(n) == [i \in 1..n |-> SideEntry(i)]

\* startup catalogs with a category at and just above the width of a carousel
ViewCatalogs == {SideCatalog(n) : n \in (MaxSides - 2)..(MaxSides - 1)}

\* the `items` a category view is mounted with: n records of "Sides" after
\* one of another category
ProjectorCatalogs ==
    {<<StartEntry(1)>> \o [i \in 1..n |-> SideEntry(1 + i)] : n \in 0..MaxSides}

\* the `category` a category view is mounted with
ProjectorCategories == {"Sides", "Pastries"}

\* the ids of the drawn items that are clicked where categories are large
ClickIds == {2, 3}

\* the ids of the drawn items handleOrderItem is called with directly
HandlerClickIds == {1, 2, 5}

\* a MenuItem that no catalog holds
ForeignItem ==
    [id |-> 99, name |-> "Bagel", price |-> Fin(350), category |-> "Pastries",
     icon |-> "U+1F95E", iconName |-> "pancake"]

\* the new items handleAddMenuItem is called with directly
NewItems ==
    { [name |-> "Tea", price |-> Fin(250), category |-> "Drinks",
       icon |-> "U+2615", iconName |-> "coffee"],
      [name |-> "Toast", price |-> Fin(150), category |-> "Sides",
       icon |-> "U+1F95E", iconName |-> "pancake"] }

\* what the text inputs of the dialog can be made to hold
NameInputs == {"", "Tea"}

PriceInputs ==
    { <<>>,
      <<"a", "b", "c">>,
      <<"2", ".", "5">>,
      <<"I", "n", "f", "i", "n", "i", "t", "y">> }

\* the prices typed in the sessions that only fill in drafts
DraftPriceInputs ==
    { <<"2", ".", "5">>,
      <<"-", "5">> }

\* the icon names picked in the sessions that only fill in drafts
DraftIconInputs == {"coffee", "egg"}

\* the <SelectItem> values of the category dropdown that are exercised
CategoryInputs == {"Drinks", "Sides"}

\* the icon names of the icon dropdown that are exercised
IconInputs == {"coffee"}

----------------------------------------------------------------------------
(* AddItemDialog.tsx *)

iconOptions ==
    << [emoji |-> "U+2615",  name |-> "coffee"],
       [emoji |-> "U+1F95A", name |-> "egg"],
       [emoji |-> "U+1F373", name |-> "egg-fried"],
       [emoji |-> "U+1F37D", name |-> "utensils"],
       [emoji |-> "U+1F964", name |-> "cup-soda"],
       [emoji |-> "U+1F95E", name |-> "pancake"],
       [emoji |-> "U+1F36A", name |-> "cookie"] >>

DefaultIcon == "U+1F37D"

\* an icon selection that leaves the glyph as it is
SelectedOptionEmojiKept(n, current) == current

\* const selected = iconOptions.find(option => option.name === name);
\* if (selected) setSelectedIcon(selected.emoji)
selectedOptionEmoji(n, current) ==
    IF \E i \in 1..Len(iconOptions) : iconOptions[i].name = n
    THEN LET k == CHOOSE i \in 1..Len(iconOptions) :
                    /\ iconOptions[i].name = n
                    /\ \A j \in 1..(i - 1) : iconOptions[j].name # n
         IN  iconOptions[k].emoji
    ELSE current

\* disabled={!name || !price || !category || !iconName} of the Save button
saveDisabled == name = "" \/ price = <<>> \/ category = "" \/ iconName = ""

\* if (!name || !price || !category || !iconName) return;
missingField == name = "" \/ price = <<>> \/ category = "" \/ iconName = ""

\* const priceValue = parseFloat(price);
priceValue == ParseFloat(price)

\* handleSubmit without the NaN check
InvalidPriceUnchecked == FALSE

\* if (isNaN(priceValue)) return;
invalidPrice == isNaN(priceValue)

\* the argument of onAddItem
newItemOfForm ==
    [name |-> name, price |-> priceValue, category |-> category,
     icon |-> selectedIcon, iconName |-> iconName]

----------------------------------------------------------------------------
(* OrderSummary.tsx *)

\* a reduce that starts at 0 but stops one item short
RECURSIVE TotalPriceAllButLast(_)
TotalPriceAllButLast(items) ==
    IF Len(items) <= 1 THEN Fin(0)
    ELSE JsAdd(TotalPriceAllButLast(SubSeq(items, 1, Len(items) - 1)),
               items[Len(items) - 1].price)

\* selectedItems.reduce((sum, item) => sum + item.price, 0)
RECURSIVE totalPrice(_)
totalPrice(items) ==
    IF items = <<>> THEN Fin(0)
    ELSE JsAdd(totalPrice(SubSeq(items, 1, Len(items) - 1)),
               items[Len(items)].price)

itemCount(items) == Len(items)

----------------------------------------------------------------------------
(* Index.tsx *)

\* Array.from(new Set(data.map(item => item.category)))
RECURSIVE uniqueCategories(_)
uniqueCategories(data) ==
    IF data = <<>> THEN <<>>
    ELSE LET init == uniqueCategories(SubSeq(data, 1, Len(data) - 1))
             c    == data[Len(data)].category
         IN  IF c \in Range(init) THEN init ELSE Append(init, c)

\* a membership test that looks at the most recently added member only
IsAlreadySelectedLastOnly(currentItems, item) ==
    currentItems # <<>> /\ currentItems[Len(currentItems)].id = item.id

\* currentItems.some(selectedItem => selectedItem.id === item.id)
isAlreadySelected(currentItems, item) ==
    \E i \in 1..Len(currentItems) : currentItems[i].id = item.id

\* an updater that adds without looking for the item first
HandleOrderItemAlwaysAdd(currentItems, item) == Append(currentItems, item)

\* an updater whose removal drops the last member instead of the clicked one
HandleOrderItemRemoveLast(currentItems, item) ==
    IF isAlreadySelected(currentItems, item)
    THEN SubSeq(currentItems, 1, Len(currentItems) - 1)
    ELSE Append(currentItems, item)

\* an updater that puts an added item first: [item, ...currentItems]
HandleOrderItemPrepend(currentItems, item) ==
    IF isAlreadySelected(currentItems, item)
    THEN SelectSeq(currentItems, LAMBDA selectedItem : selectedItem.id # item.id)
    ELSE <<item>> \o currentItems

\* a toggle worked out from the selectedItems of the last render, not from
\* the argument of the updater
HandleOrderItemFromRender(currentItems, item) ==
    IF isAlreadySelected(view.selectedItems, item)
    THEN SelectSeq(view.selectedItems,
                   LAMBDA selectedItem : selectedItem.id # item.id)
    ELSE Append(view.selectedItems, item)

\* an updater that keeps the selection in the order of the ids
HandleOrderItemSorted(currentItems, item) ==
    IF isAlreadySelected(currentItems, item)
    THEN SelectSeq(currentItems, LAMBDA selectedItem : selectedItem.id # item.id)
    ELSE SelectSeq(currentItems, LAMBDA selectedItem : selectedItem.id < item.id)
         \o <<item>> \o
         SelectSeq(currentItems, LAMBDA selectedItem : selectedItem.id > item.id)

\* the updater handed to setSelectedItems
handleOrderItemUpdate(currentItems, item) ==
    IF isAlreadySelected(currentItems, item)
    THEN SelectSeq(currentItems, LAMBDA selectedItem : selectedItem.id # item.id)
    ELSE Append(currentItems, item)

\* the two messages the wrong way round
HandleOrderItemToastSwapped(currentItems, item) ==
    IF isAlreadySelected(currentItems, item)
    THEN [kind |-> "added", name |-> item.name]
    ELSE [kind |-> "removed", name |-> item.name]

\* the toast raised inside that updater
handleOrderItemToast(currentItems, item) ==
    IF isAlreadySelected(currentItems, item)
    THEN [kind |-> "removed", name |-> item.name]
    ELSE [kind |-> "added", name |-> item.name]

\* Math.max(...values, 0)
RECURSIVE MathMax0(_)
MathMax0(values) ==
    IF values = <<>> THEN 0
    ELSE LET m == MathMax0(Tail(values))
         IN  IF Head(values) > m THEN Head(values) ELSE m

\* an id taken from the length of the catalog
NewIdByLength(renderedMenu) == Len(renderedMenu) + 1

\* an id that is the largest existing one, not its successor
NewIdNoIncrement(renderedMenu) ==
    MathMax0([i \in 1..Len(renderedMenu) |-> renderedMenu[i].id])

\* const newId = Math.max(...menu.map(item => item.id), 0) + 1;
newId(renderedMenu) ==
    MathMax0([i \in 1..Len(renderedMenu) |-> renderedMenu[i].id]) + 1

\* const itemWithId = { id: newId, ...newItem };
itemWithId(renderedMenu, newItem) ==
    [id |-> newId(renderedMenu), name |-> newItem.name, price |-> newItem.price,
     category |-> newItem.category, icon |-> newItem.icon,
     iconName |-> newItem.iconName]

\* setMenu(currentMenu => [itemWithId, ...currentMenu])
HandleAddMenuItemPrepend(currentMenu, renderedMenu, newItem) ==
    <<itemWithId(renderedMenu, newItem)>> \o currentMenu

\* setMenu(() => [itemWithId])
HandleAddMenuItemReplace(currentMenu, renderedMenu, newItem) ==
    <<itemWithId(renderedMenu, newItem)>>

\* an updater that skips a draft whose name the catalog already holds
HandleAddMenuItemDedup(currentMenu, renderedMenu, newItem) ==
    IF \E i \in 1..Len(currentMenu) : currentMenu[i].name = newItem.name
    THEN currentMenu
    ELSE Append(currentMenu, itemWithId(renderedMenu, newItem))

\* setMenu(currentMenu => [...currentMenu, itemWithId])
handleAddMenuItemMenu(currentMenu, renderedMenu, newItem) ==
    Append(currentMenu, itemWithId(renderedMenu, newItem))

\* a handleAddMenuItem that leaves categories alone
HandleAddMenuItemCategoriesNever(currentCategories, renderedCategories, newItem) ==
    currentCategories

\* setCategories without the includes() test
HandleAddMenuItemCategoriesAlways(currentCategories, renderedCategories, newItem) ==
    Append(currentCategories, newItem.category)

\* if (!categories.includes(c)) setCategories(cur => [...cur, c])
handleAddMenuItemCategories(currentCategories, renderedCategories, newItem) ==
    IF newItem.category \notin Range(renderedCategories)
    THEN Append(currentCategories, newItem.category)
    ELSE currentCategories

\* a success message that names the category of the new item
HandleAddMenuItemToastCategory(newItem) ==
    [kind |-> "success", name |-> newItem.category]

\* toast.success(`Added ${newItem.name} to the menu`)
handleAddMenuItemToast(newItem) ==
    [kind |-> "success", name |-> newItem.name]

\* one render pass of Index: the props handed down and what OrderSummary
\* derives from them
Render(m, c, s) ==
    [menu |-> m, categories |-> c, selectedItems |-> s,
     totalPrice |-> totalPrice(s), itemCount |-> itemCount(s)]

\* the items a category section draws, each with its onClick
categoryItems(items, c) == SelectSeq(items, LAMBDA item : item.category = c)

RenderedItems ==
    UNION {Range(categoryItems(view.menu, c)) : c \in Range(view.categories)}

----------------------------------------------------------------------------
(* MenuCategoryView.tsx *)

\* selectedItems.some(selectedItem => selectedItem.id === item.id)
isItemSelected(selected, item) ==
    \E i \in 1..Len(selected) : selected[i].id = item.id

\* what MenuCategoryView returns: null, or a heading and one card per item
MenuCategoryView(items, c, selected) ==
    LET shown == categoryItems(items, c)
    IN  IF Len(shown) = 0
        THEN [kind |-> "nothing", controls |-> FALSE, cards |-> <<>>]
        ELSE [kind |-> "grid", controls |-> FALSE,
              cards |-> [i \in 1..Len(shown) |->
                           [item |-> shown[i],
                            selected |-> isItemSelected(selected, shown[i])]]]

----------------------------------------------------------------------------
(* ui/collapsible.tsx: MenuCarousel *)

\* the category labels a MenuCarousel can be mounted for
CategoryLabels == {"Drinks", "Pastries", "Mains", "Sides"}

WindowCap == 5

Min(a, b) == IF a < b THEN a ELSE b

Max(a, b) == IF a > b THEN a ELSE b

\* const visibleItems = Math.min(5, categoryItems.length);
visibleItems(items, c) == Min(WindowCap, Len(categoryItems(items, c)))

\* A last offset one short of Math.max(0, length - visibleItems)
MaxIndexOneShort(items, c) ==
    Max(0, Len(categoryItems(items, c)) - visibleItems(items, c) - 1)

\* const maxIndex = Math.max(0, categoryItems.length - visibleItems);
maxIndex(items, c) ==
    Max(0, Len(categoryItems(items, c)) - visibleItems(items, c))

\* a step back without the Math.max
GoToPreviousUnclamped(prevIndex) == prevIndex - 1

\* setActiveIndex((prevIndex) => Math.max(0, prevIndex - 1))
goToPreviousUpdate(prevIndex) == Max(0, prevIndex - 1)

\* a step forward without the Math.min
GoToNextUnclamped(renderedMaxIndex, prevIndex) == prevIndex + 1

\* setActiveIndex((prevIndex) => Math.min(maxIndex, prevIndex + 1))
goToNextUpdate(renderedMaxIndex, prevIndex) ==
    Min(renderedMaxIndex, prevIndex + 1)

\* a test against the first member only
CarouselIsItemSelectedFirstOnly(selected, item) ==
    selected # <<>> /\ selected[1].id = item.id

\* selectedItems.some(selectedItem => selectedItem.id === item.id)
carouselIsItemSelected(selected, item) ==
    \E i \in 1..Len(selected) : selected[i].id = item.id

\* a carousel without the early return for an empty category
MenuCarouselNoEmptyState(items, c, selected, index) ==
    LET shown == categoryItems(items, c)
    IN  [kind |-> "carousel", controls |-> TRUE,
         previousDisabled |-> (index = 0),
         nextDisabled |-> (index >= maxIndex(items, c)),
         cards |-> [i \in 1..Len(shown) |->
                      [item |-> shown[i],
                       selected |-> carouselIsItemSelected(selected, shown[i])]]]

\* what MenuCarousel returns: the empty-state message, or the heading, the
\* two navigation buttons and one card per item
MenuCarousel(items, c, selected, index) ==
    LET shown == categoryItems(items, c)
    IN  IF Len(shown) = 0
        THEN [kind |-> "placeholder", controls |-> FALSE, cards |-> <<>>]
        ELSE [kind |-> "carousel", controls |-> TRUE,
              previousDisabled |-> (index = 0),
              nextDisabled |-> (index >= maxIndex(items, c)),
              cards |-> [i \in 1..Len(shown) |->
                           [item |-> shown[i],
                            selected |->
                              carouselIsItemSelected(selected, shown[i])]]]

\* the two branches of the conditional exchanged
CategorySectionSwapped(mobile, items, c, selected, index) ==
    IF mobile
    THEN MenuCarousel(items, c, selected, index)
    ELSE MenuCategoryView(items, c, selected)

\* Index: isMobile ? <MenuCategoryView .../> : <MenuCarousel .../>
CategorySection(mobile, items, c, selected, index) ==
    IF mobile
    THEN MenuCategoryView(items, c, selected)
    ELSE MenuCarousel(items, c, selected, index)

\* what the last render pass drew for category c
Drawn(c) ==
    CategorySection(isMobile, view.menu, c, view.selectedItems, activeIndex[c])

\* one index shared by the carousels of all categories
SetActiveIndexShared(indexes, c, index) ==
    [d \in DOMAIN indexes |-> index]

\* setActiveIndex in the MenuCarousel of category c, with the value its
\* updater returns
setActiveIndex(indexes, c, index) ==
    [indexes EXCEPT ![c] = index]

\* every MenuCarousel starts at useState(0)
Mounted == [c \in CategoryLabels |-> 0]

----------------------------------------------------------------------------
(* State machine *)

NoToast == [kind |-> "none", name |-> ""]

\* the state of the page after its first render, apart from the imported
\* catalog and the viewport
FirstRender ==
    /\ initialized = FALSE
    /\ menu = <<>>
    /\ selectedItems = <<>>
    /\ categories = <<>>
    /\ addItemDialogOpen = FALSE
    /\ name = ""
    /\ price = <<>>
    /\ category = ""
    /\ iconName = ""
    /\ selectedIcon = DefaultIcon
    /\ toast = NoToast
    /\ view = Render(<<>>, <<>>, <<>>)
    /\ oddToggled = {}
    /\ lastSubmit = "none"
    /\ activeIndex = Mounted
    /\ nextRun = Mounted

\* a session on a wide viewport
Init ==
    /\ menuData \in StartupCatalogs
    /\ isMobile = FALSE
    /\ FirstRender

\* useEffect(() => {...}, []): runs once after the first render, before any
\* event is dispatched
Initialize ==
    /\ ~initialized
    /\ initialized' = TRUE
    /\ menu' = menuData
    /\ categories' = uniqueCategories(menuData)
    /\ view' = Render(menu', categories', selectedItems)
    /\ UNCHANGED <<menuData, selectedItems, addItemDialogOpen, formVars, toast,
                   histVars, carouselVars>>

\* onClick={() => onOrderItem(item)} on a drawn item
handleOrderItem(item) ==
    /\ initialized
    /\ item \in RenderedItems
    /\ selectedItems' = handleOrderItemUpdate(selectedItems, item)
    /\ toast' = handleOrderItemToast(selectedItems, item)
    /\ view' = Render(menu, categories, selectedItems')
    /\ oddToggled' = IF item.id \in oddToggled
                     THEN oddToggled \ {item.id}
                     ELSE oddToggled \cup {item.id}
    /\ UNCHANGED <<menuData, initialized, menu, categories, addItemDialogOpen,
                   formVars, lastSubmit, carouselVars>>

\* MenuHeader: onOpenAddItem={() => setAddItemDialogOpen(true)}
onOpenAddItem ==
    /\ initialized
    /\ ~addItemDialogOpen
    /\ addItemDialogOpen' = TRUE
    /\ UNCHANGED <<menuData, initialized, menu, selectedItems, categories,
                   formVars, toast, view, histVars, carouselVars>>

\* onChange={(e) => setName(e.target.value)}
setName(n) ==
    /\ addItemDialogOpen
    /\ name' = n
    /\ UNCHANGED <<menuData, initialized, menu, selectedItems, categories,
                   addItemDialogOpen, price, category, iconName, selectedIcon,
                   toast, view, histVars, carouselVars>>

\* onChange={(e) => setPrice(e.target.value)}
setPrice(p) ==
    /\ addItemDialogOpen
    /\ price' = p
    /\ UNCHANGED <<menuData, initialized, menu, selectedItems, categories,
                   addItemDialogOpen, name, category, iconName, selectedIcon,
                   toast, view, histVars, carouselVars>>

\* onValueChange={setCategory}
setCategory(c) ==
    /\ addItemDialogOpen
    /\ category' = c
    /\ UNCHANGED <<menuData, initialized, menu, selectedItems, categories,
                   addItemDialogOpen, name, price, iconName, selectedIcon,
                   toast, view, histVars, carouselVars>>

\* handleIconSelect
handleIconSelect(n) ==
    /\ addItemDialogOpen
    /\ iconName' = n
    /\ selectedIcon' = selectedOptionEmoji(n, selectedIcon)
    /\ UNCHANGED <<menuData, initialized, menu, selectedItems, categories,
                   addItemDialogOpen, name, price, category, toast, view,
                   histVars, carouselVars>>

\* handleCancel
handleCancel ==
    /\ addItemDialogOpen
    /\ addItemDialogOpen' = FALSE
    /\ UNCHANGED <<menuData, initialized, menu, selectedItems, categories,
                   formVars, toast, view, histVars, carouselVars>>

\* handleAddMenuItem: `menu` and `categories` are the values of the render
\* the handler was created in; the updaters act on the committed state
handleAddMenuItem(newItem) ==
    /\ menu' = handleAddMenuItemMenu(menu, view.menu, newItem)
    /\ categories' = handleAddMenuItemCategories(categories, view.categories,
                                                 newItem)
    /\ toast' = handleAddMenuItemToast(newItem)

\* handleSubmit, with handleAddMenuItem as its onAddItem.  It is the entry
\* point for creating an entry from the current draft; the `disabled`
\* attribute of the Save button is a separate check.  At most maxAdds
\* entries are created.
handleSubmitWithin(maxAdds) ==
    /\ initialized
    /\ addItemDialogOpen
    /\ IF missingField \/ invalidPrice
       THEN /\ lastSubmit' = "rejected"
            /\ UNCHANGED <<menuData, initialized, menu, selectedItems,
                           categories, addItemDialogOpen, formVars, toast,
                           view, oddToggled, carouselVars>>
       ELSE /\ Len(menu) < Len(menuData) + maxAdds
            /\ handleAddMenuItem(newItemOfForm)
            /\ name' = ""
            /\ price' = <<>>
            /\ category' = ""
            /\ iconName' = ""
            /\ selectedIcon' = DefaultIcon
            /\ addItemDialogOpen' = FALSE
            /\ view' = Render(menu', categories', selectedItems)
            /\ lastSubmit' = "added"
            /\ nextRun' = [nextRun EXCEPT ![category] =
                              IF activeIndex[category] = 0 THEN 0 ELSE -1]
            /\ UNCHANGED <<menuData, initialized, selectedItems, oddToggled,
                           isMobile, activeIndex>>

handleSubmit == handleSubmitWithin(MaxAdds)

\* onClick={goToPrevious}; the `disabled` attribute of the button is a
\* separate check
goToPrevious(c) ==
    /\ initialized
    /\ ~isMobile
    /\ c \in Range(view.categories)
    /\ categoryItems(view.menu, c) # <<>>
    /\ activeIndex' =
         setActiveIndex(activeIndex, c, goToPreviousUpdate(activeIndex[c]))
    /\ nextRun' = [nextRun EXCEPT ![c] = IF activeIndex'[c] = 0 THEN 0 ELSE -1]
    /\ UNCHANGED <<menuData, initialized, menu, selectedItems, categories,
                   addItemDialogOpen, formVars, toast, view, histVars,
                   isMobile>>

\* onClick={goToNext}; maxIndex is the value of the render the handler was
\* created in
goToNext(c) ==
    /\ initialized
    /\ ~isMobile
    /\ c \in Range(view.categories)
    /\ categoryItems(view.menu, c) # <<>>
    /\ activeIndex' =
         setActiveIndex(activeIndex, c,
                        goToNextUpdate(maxIndex(view.menu, c), activeIndex[c]))
    /\ nextRun' = [nextRun EXCEPT ![c] =
                      IF @ \in 0..(MaxNexts - 1) THEN @ + 1 ELSE -1]
    /\ UNCHANGED <<menuData, initialized, menu, selectedItems, categories,
                   addItemDialogOpen, formVars, toast, view, histVars,
                   isMobile>>

\* handleOrderItem called with any MenuItem; React has not rendered again
\* when the call returns
handleOrderItemCall(item) ==
    /\ initialized
    /\ selectedItems' = handleOrderItemUpdate(selectedItems, item)
    /\ toast' = handleOrderItemToast(selectedItems, item)
    /\ oddToggled' = IF item.id \in oddToggled
                     THEN oddToggled \ {item.id}
                     ELSE oddToggled \cup {item.id}
    /\ UNCHANGED <<menuData, initialized, menu, categories, addItemDialogOpen,
                   formVars, view, lastSubmit, carouselVars>>

\* handleAddMenuItem called with any new item; React has not rendered again
\* when the call returns.  At most maxAdds entries are created.
handleAddMenuItemCall(newItem, maxAdds) ==
    /\ initialized
    /\ Len(menu) < Len(menuData) + maxAdds
    /\ handleAddMenuItem(newItem)
    /\ nextRun' = [nextRun EXCEPT ![newItem.category] =
                      IF activeIndex[newItem.category] = 0 THEN 0 ELSE -1]
    /\ UNCHANGED <<menuData, initialized, selectedItems, addItemDialogOpen,
                   formVars, view, histVars, isMobile, activeIndex>>

\* React renders Index from the committed state
render ==
    /\ initialized
    /\ view' = Render(menu, categories, selectedItems)
    /\ UNCHANGED <<menuData, initialized, menu, selectedItems, categories,
                   addItemDialogOpen, formVars, toast, histVars, carouselVars>>

\* useIsMobile() reports the other kind of viewport: Index renders again,
\* the category sections of the old kind are unmounted and those of the new
\* kind are mounted
viewportChange ==
    /\ initialized
    /\ isMobile' = ~isMobile
    /\ activeIndex' = Mounted
    /\ nextRun' = Mounted
    /\ UNCHANGED <<menuData, initialized, menu, selectedItems, categories,
                   addItemDialogOpen, formVars, toast, view, histVars>>

Next ==
    \/ Initialize
    \/ \E item \in RenderedItems : handleOrderItem(item)
    \/ onOpenAddItem
    \/ \E n \in NameInputs : setName(n)
    \/ \E p \in PriceInputs : setPrice(p)
    \/ \E c \in CategoryInputs : setCategory(c)
    \/ \E n \in IconInputs : handleIconSelect(n)
    \/ handleCancel
    \/ handleSubmit

Spec == Init /\ [][Next]_vars

----------------------------------------------------------------------------
(* Sessions in which the viewport changes and the carousels are navigated, *)
(* on catalogs with a category wider than a carousel                       *)

InitViews ==
    /\ menuData \in ViewCatalogs
    /\ isMobile \in BOOLEAN
    /\ FirstRender

NextViews ==
    \/ Initialize
    \/ viewportChange
    \/ \E c \in CategoryLabels : goToNext(c)
    \/ \E c \in CategoryLabels : goToPrevious(c)
    \/ \E item \in RenderedItems : item.id \in ClickIds /\ handleOrderItem(item)
    \/ onOpenAddItem
    \/ setName("Tea")
    \/ setPrice(<<"2", ".", "5">>)
    \/ \E c \in CategoryInputs : setCategory(c)
    \/ \E n \in IconInputs : handleIconSelect(n)
    \/ handleCancel
    \/ handleSubmit

SpecViews == InitViews /\ [][NextViews]_vars

----------------------------------------------------------------------------
(* One category section, mounted with any `items` and `category`           *)

InitProjector ==
    /\ menuData \in ProjectorCatalogs
    /\ initialized = TRUE
    /\ menu = menuData
    /\ categories \in {<<c>> : c \in ProjectorCategories}
    /\ selectedItems = <<>>
    /\ addItemDialogOpen = FALSE
    /\ name = ""
    /\ price = <<>>
    /\ category = ""
    /\ iconName = ""
    /\ selectedIcon = DefaultIcon
    /\ toast = NoToast
    /\ view = Render(menu, categories, selectedItems)
    /\ oddToggled = {}
    /\ lastSubmit = "none"
    /\ isMobile = FALSE
    /\ activeIndex = Mounted
    /\ nextRun = Mounted

NextProjector ==
    \/ viewportChange
    \/ \E c \in CategoryLabels : goToNext(c)
    \/ \E c \in CategoryLabels : goToPrevious(c)
    \/ \E item \in RenderedItems : item.id \in ClickIds /\ handleOrderItem(item)

SpecProjector == InitProjector /\ [][NextProjector]_vars

----------------------------------------------------------------------------
(* Sessions in which drafts are filled in and submitted, nothing else      *)

NextDrafts ==
    \/ Initialize
    \/ onOpenAddItem
    \/ \E n \in NameInputs : setName(n)
    \/ \E p \in DraftPriceInputs : setPrice(p)
    \/ \E c \in CategoryInputs : setCategory(c)
    \/ \E n \in DraftIconInputs : handleIconSelect(n)
    \/ handleCancel
    \/ handleSubmitWithin(MaxDraftAdds)

SpecDrafts == Init /\ [][NextDrafts]_vars

----------------------------------------------------------------------------
(* The handlers of Index called directly, with any argument and any number *)
(* of times between two render passes                                      *)

\* the items handleOrderItem is called with
OrderArguments ==
    {item \in RenderedItems : item.id \in HandlerClickIds} \cup {ForeignItem}

NextHandlers ==
    \/ Initialize
    \/ \E item \in OrderArguments : handleOrderItemCall(item)
    \/ \E newItem \in NewItems : handleAddMenuItemCall(newItem, MaxDraftAdds)
    \/ render

SpecHandlers == Init /\ [][NextHandlers]_vars

----------------------------------------------------------------------------
(* Properties *)

Ids(items) == {items[i].id : i \in 1..Len(items)}

DistinctIds(items) ==
    \A i, j \in 1..Len(items) : items[i].id = items[j].id => i = j

IsPrefix(s, t) == Len(s) <= Len(t) /\ SubSeq(t, 1, Len(s)) = s

MaxOf(S) == CHOOSE m \in S : \A x \in S : x <= m

\* C1: an id is a member of the selection exactly when it has been toggled
\* an odd number of times since the selection was empty; hence an even number
\* of toggles of an id restores its membership, an odd number flips it, and
\* toggles of other ids do not count.
C1_TogglePairsRestoreMembership ==
    \A id \in Ids(menu) \cup oddToggled :
        (id \in Ids(selectedItems)) <=> (id \in oddToggled)

C1_Witness ==
    /\ oddToggled # {}
    /\ \E id \in Ids(menu) : id \notin oddToggled
    /\ toast.kind = "removed"

\* C2: one toggle of a member removes exactly the entry with that id and
\* reports "removed"; one toggle of a non-member adds the full entry and
\* reports "added"; no other member is added or removed.
C2_SingleToggle ==
    [][\A item \in RenderedItems :
         handleOrderItem(item) =>
           IF item.id \in Ids(selectedItems)
           THEN /\ toast' = [kind |-> "removed", name |-> item.name]
                /\ Range(selectedItems') =
                     {e \in Range(selectedItems) : e.id # item.id}
                /\ Len(selectedItems') = Len(selectedItems) - 1
           ELSE /\ toast' = [kind |-> "added", name |-> item.name]
                /\ Range(selectedItems') = Range(selectedItems) \cup {item}
                /\ Len(selectedItems') = Len(selectedItems) + 1]_vars

C2_Witness ==
    /\ toast.kind = "removed"
    /\ Len(selectedItems) >= 1
    /\ Len(menu) >= 3

\* the sum of the prices of items as a number, whatever the order of addition
RECURSIVE SumOver(_, _)
SumOver(items, I) ==
    IF I = {} THEN 0
    ELSE LET i == CHOOSE k \in I : TRUE
         IN  items[i].price.v + SumOver(items, I \ {i})

ExactSum(items) ==
    LET I == 1..Len(items)
    IN  IF \/ \E i \in I : items[i].price.kind = "nan"
           \/ \E i, j \in I : /\ items[i].price = PosInf
                              /\ items[j].price = NegInf
        THEN NaN
        ELSE IF \E i \in I : items[i].price.kind = "inf"
        THEN items[CHOOSE i \in I : items[i].price.kind = "inf"].price
        ELSE Fin(SumOver(items, I))

\* C3: what is displayed is the aggregate of the current selection: the total
\* is the sum of its prices, the count its length, both 0 when it is empty.
C3_AggregateIsCurrent ==
    /\ view.selectedItems = selectedItems
    /\ view.totalPrice = ExactSum(selectedItems)
    /\ view.itemCount = Len(selectedItems)
    /\ selectedItems = <<>> => view.totalPrice = Fin(0) /\ view.itemCount = 0

C3_Witness ==
    /\ Len(selectedItems) = 2
    /\ view.totalPrice = Fin(675)
    /\ toast.kind = "added"

\* C4: an entry appended at runtime gets id max(ids before, 0) + 1, which is
\* above every id the catalog held; 1 when the catalog was empty.
C4_NewIdIsMaxPlusOne ==
    [][(initialized /\ Len(menu') > Len(menu)) =>
         LET new == menu'[Len(menu')]
         IN  /\ new.id = MaxOf(Ids(menu) \cup {0}) + 1
             /\ \A i \in 1..Len(menu) : new.id > menu[i].id
             /\ menu = <<>> => new.id = 1]_vars

C4_Witness ==
    /\ Len(menu) = 3
    /\ menu[1].id = 5
    /\ menu[2].id = 2
    /\ menu[3].id = 6

\* C5: with a startup catalog of pairwise distinct ids, the ids of the
\* catalog stay pairwise distinct, and an entry keeps its id and its place.
C5_IdsStayDistinct ==
    [][/\ DistinctIds(menuData) => DistinctIds(menu')
       /\ initialized =>
            \A i \in 1..Len(menu) :
                i <= Len(menu') /\ menu'[i].id = menu[i].id]_vars

C5_Witness ==
    /\ DistinctIds(menuData)
    /\ menuData # <<>>
    /\ Len(menu) > Len(menuData)
    /\ selectedItems # <<>>

\* C6: the catalog only grows at its end: every earlier catalog is a prefix
\* of every later one, and an accepted draft adds exactly one entry, the
\* draft's, in the last place.
C6_CatalogOnlyGrows ==
    [][/\ IsPrefix(menu, menu')
       /\ (initialized /\ menu' # menu) =>
            /\ Len(menu') = Len(menu) + 1
            /\ menu'[Len(menu')].name = name
            /\ menu'[Len(menu')].category = category
            /\ menu'[Len(menu')].iconName = iconName]_vars

C6_Witness ==
    /\ Len(menuData) = 2
    /\ Len(menu) = 3
    /\ lastSubmit = "added"

AllDigits(w) == \A i \in 1..Len(w) : w[i] \in DigitChars

\* w is a decimal literal without exponent: [+-]?(Infinity | D+ | D+.D* | .D+)
IsDecimalLiteral(w) ==
    LET b == IF w # <<>> /\ w[1] \in {"+", "-"} THEN Tail(w) ELSE w
    IN  \/ b = InfinityLiteral
        \/ b # <<>> /\ AllDigits(b)
        \/ \E d \in 1..Len(b) :
             /\ b[d] = "."
             /\ AllDigits(SubSeq(b, 1, d - 1))
             /\ AllDigits(SubSeq(b, d + 1, Len(b)))
             /\ Len(b) > 1

\* no number can be read at the start of p (after leading white space)
NonNumeric(p) ==
    \A i \in 0..Len(p) :
        (\A k \in 1..i : p[k] = " ") =>
            \A j \in (i + 1)..Len(p) : ~IsDecimalLiteral(SubSeq(p, i + 1, j))

\* C7: a submit with name, category or iconName empty, or with an empty or
\* non-numeric price, is refused and leaves the catalog, the categories and
\* the selection as they were.
C7_InvalidDraftRefused ==
    [][(/\ handleSubmit
        /\ \/ name = ""
           \/ category = ""
           \/ iconName = ""
           \/ price = <<>>
           \/ NonNumeric(price)) =>
         /\ lastSubmit' = "rejected"
         /\ UNCHANGED <<menu, categories, selectedItems>>]_vars

C7_Witness ==
    /\ lastSubmit = "rejected"
    /\ name = "Tea"
    /\ price = <<"a", "b", "c">>
    /\ category # ""
    /\ iconName # ""
    /\ selectedItems # <<>>

\* C8: a price that does not parse to a finite number is refused, so no
\* entry created at runtime has a non-finite price.
C8_NonFinitePriceRefused ==
    \A i \in 1..Len(menu) :
        i > Len(menuData) => menu[i].price.kind = "fin"

FirstIndex(items, c) ==
    CHOOSE i \in 1..Len(items) :
        /\ items[i].category = c
        /\ \A j \in 1..(i - 1) : items[j].category # c

\* cs lists the categories of items, each once, in order of first appearance
IsFirstSeenOrder(cs, items) ==
    /\ Range(cs) = {items[i].category : i \in 1..Len(items)}
    /\ \A a, b \in 1..Len(cs) :
         a < b => FirstIndex(items, cs[a]) < FirstIndex(items, cs[b])

\* C9: once initialized, categories is the list of the distinct categories
\* of the catalog in order of first appearance; an accepted draft with a new
\* category appends the label, one with a known category changes nothing.
C9_CategoriesFirstSeen ==
    [][/\ initialized' => IsFirstSeenOrder(categories', menu')
       /\ (initialized /\ menu' # menu) =>
            categories' = IF category \in Range(categories)
                          THEN categories
                          ELSE Append(categories, category)]_vars

C9_Witness ==
    /\ categories = <<"Drinks", "Pastries", "Sides">>
    /\ Len(menu) = 3

\* C10: every selected entry has its id in the catalog.
C10_SelectionWithinCatalog ==
    \A i \in 1..Len(selectedItems) : selectedItems[i].id \in Ids(menu)

C10_Witness ==
    /\ Len(menu) > Len(menuData)
    /\ \E i \in 1..Len(selectedItems) :
         selectedItems[i].id = menu[Len(menu)].id
    /\ menuData # <<>>

\* C11: the selection never holds two entries with the same id, however
\* often and in whatever order entries are toggled.
C11_SelectionUniqueById == DistinctIds(selectedItems)

C11_Witness ==
    /\ toast.kind = "removed"
    /\ Len(selectedItems) >= 2
    /\ Cardinality(Ids(selectedItems)) = Len(selectedItems)

\* s without its k-th element
Without(s, k) == SubSeq(s, 1, k - 1) \o SubSeq(s, k + 1, Len(s))

\* C17: the order summary lists the selection in the order its members were
\* added: a toggle that adds puts the entry last, a toggle that removes takes
\* out that one entry and leaves the others in their order.
C17_SnapshotInInsertionOrder ==
    [][\A item \in RenderedItems :
         handleOrderItem(item) =>
           /\ view'.selectedItems = selectedItems'
           /\ IF item.id \in Ids(selectedItems)
              THEN \E k \in 1..Len(selectedItems) :
                       /\ selectedItems[k].id = item.id
                       /\ selectedItems' = Without(selectedItems, k)
              ELSE /\ selectedItems'[Len(selectedItems')] = item
                   /\ SubSeq(selectedItems', 1, Len(selectedItems)) =
                        selectedItems]_vars

C17_Witness ==
    /\ toast.kind = "removed"
    /\ \E i, j \in 1..Len(menu) :
         i < j /\ view.selectedItems = <<menu[j], menu[i]>>

\* C20: a step that changes the selection hands the notification sink a
\* message that names the toggled item and what was done with it, "added"
\* exactly when the entry was added and "removed" exactly when it was
\* removed; a toggle message appears only on a step that changes the
\* selection.
C20_ToggleIsNotified ==
    [][/\ selectedItems' # selectedItems =>
            \E item \in RenderedItems :
               \/ /\ item.id \notin Ids(selectedItems)
                  /\ item.id \in Ids(selectedItems')
                  /\ toast' = [kind |-> "added", name |-> item.name]
               \/ /\ item.id \in Ids(selectedItems)
                  /\ item.id \notin Ids(selectedItems')
                  /\ toast' = [kind |-> "removed", name |-> item.name]
       /\ (toast' # toast /\ toast'.kind \in {"added", "removed"}) =>
            selectedItems' # selectedItems]_vars

C20_Witness ==
    /\ toast = [kind |-> "added", name |-> "Tea"]
    /\ selectedItems # <<>>
    /\ selectedItems[Len(selectedItems)].name = "Tea"

\* C14: for every item of the catalog, the card MenuCategoryView draws and
\* the card MenuCarousel draws carry the same "selected" mark, and the mark
\* is set exactly when the selection holds an entry with the item's id.
C14_ProjectorsAgreeOnSelected ==
    \A c \in Range(categories) :
        LET flat     == MenuCategoryView(menu, c, selectedItems).cards
            carousel == MenuCarousel(menu, c, selectedItems, activeIndex[c]).cards
        IN  /\ Len(flat) = Len(carousel)
            /\ \A k \in 1..Len(flat) :
                 /\ flat[k].item = carousel[k].item
                 /\ flat[k].selected = carousel[k].selected
                 /\ flat[k].selected <=>
                      (flat[k].item.id \in Ids(selectedItems))

C14_Witness ==
    /\ Len(selectedItems) >= 2
    /\ \E c \in Range(categories) :
         LET cards == MenuCarousel(menu, c, selectedItems, activeIndex[c]).cards
         IN  \E a, b \in 1..Len(cards) :
                cards[a].selected /\ ~cards[b].selected

\* the number of entries of category c in items
CountOf(items, c) == Cardinality({i \in 1..Len(items) : items[i].category = c})

\* C12: with n items in a category, 5 of them at most are visible and
\* maxIndex is max(0, n - 5); goToNext moves activeIndex to
\* min(maxIndex, activeIndex + 1) and goToPrevious to max(0, activeIndex - 1),
\* so neither moves it at its end of the range; after k goToNext calls in a
\* row from 0, activeIndex is min(k, maxIndex).
C12_ClampedNavigation ==
    [][\A c \in CategoryLabels :
         LET n  == CountOf(menu, c)
             mx == IF n > 5 THEN n - 5 ELSE 0
         IN  /\ visibleItems(menu, c) = (IF n < 5 THEN n ELSE 5)
             /\ maxIndex(menu, c) = mx
             /\ goToNext(c) =>
                  activeIndex'[c] = (IF activeIndex[c] < mx
                                     THEN activeIndex[c] + 1
                                     ELSE activeIndex[c])
             /\ goToPrevious(c) =>
                  activeIndex'[c] = (IF activeIndex[c] > 0
                                     THEN activeIndex[c] - 1
                                     ELSE activeIndex[c])
             /\ (nextRun'[c] >= 0 /\ menu' = menu) =>
                  activeIndex'[c] = (IF nextRun'[c] < mx THEN nextRun'[c]
                                     ELSE mx)]_vars

C12_Witness ==
    /\ CountOf(menu, "Sides") = 7
    /\ nextRun["Sides"] = 3
    /\ activeIndex["Sides"] = 2

\* C13: the activeIndex of every carousel stays between 0 and maxIndex, and
\* the window it opens stays inside the category, whatever the order of
\* navigation, submits and toggles; goToNext never lowers activeIndex and
\* goToPrevious never raises it.
C13_IndexWithinBounds ==
    /\ [](\A c \in CategoryLabels :
            LET n == CountOf(menu, c)
            IN  /\ 0 <= activeIndex[c]
                /\ activeIndex[c] <= maxIndex(menu, c)
                /\ visibleItems(menu, c) <= 5
                /\ activeIndex[c] + visibleItems(menu, c) <= n)
    /\ [][\A c \in CategoryLabels :
            /\ goToNext(c) => activeIndex'[c] >= activeIndex[c]
            /\ goToPrevious(c) => activeIndex'[c] <= activeIndex[c]]_vars

C13_Witness ==
    /\ Len(menu) > Len(menuData)
    /\ CountOf(menu, "Sides") = 7
    /\ activeIndex["Sides"] = 2
    /\ nextRun["Sides"] = -1
    /\ selectedItems # <<>>

KthOf(items, c, k) ==
    CHOOSE i \in 1..Len(items) :
        /\ items[i].category = c
        /\ Cardinality({j \in 1..i : items[j].category = c}) = k

\* the cards are the entries of category c in items, in the order of items
Exposes(cards, items, c) ==
    /\ Len(cards) = CountOf(items, c)
    /\ \A k \in 1..Len(cards) : cards[k].item = items[KthOf(items, c, k)]

SameContent(a, b) ==
    /\ a.name = b.name
    /\ a.price = b.price
    /\ a.category = b.category
    /\ a.icon = b.icon
    /\ a.iconName = b.iconName

\* C18: submitting a valid draft equal in content to an entry created
\* earlier adds one more entry and leaves the earlier one in place; the new
\* entry has a greater id.  Two equal drafts thus make two entries.
C18_IdenticalDraftsTwoEntries ==
    [][(/\ handleSubmitWithin(MaxDraftAdds)
        /\ ~missingField
        /\ ~invalidPrice) =>
         /\ Len(menu') = Len(menu) + 1
         /\ SameContent(menu'[Len(menu')], newItemOfForm)
         /\ \A i \in 1..Len(menu) :
              /\ menu'[i] = menu[i]
              /\ (i > Len(menuData) /\ SameContent(menu[i], newItemOfForm)) =>
                   menu'[Len(menu')].id > menu[i].id]_vars

C18_Witness ==
    /\ Len(menu) = Len(menuData) + 2
    /\ menuData # <<>>
    /\ SameContent(menu[Len(menu) - 1], menu[Len(menu)])
    /\ menu[Len(menu) - 1].id < menu[Len(menu)].id

NonNegative(x) == x = PosInf \/ (x.kind = "fin" /\ x.v >= 0)

\* C19: every entry of the catalog, those created at runtime included, has
\* a price of at least 0, and so has the total of the selection.
C19_PricesNonNegative ==
    /\ \A i \in 1..Len(menu) : NonNegative(menu[i].price)
    /\ NonNegative(view.totalPrice)

\* C21: an accepted submit hands the notification sink a success message
\* that names the new entry; a submit that fails validation hands it
\* nothing.
C21_SubmitNotification ==
    [][handleSubmit =>
         /\ menu' # menu =>
              toast' = [kind |-> "success", name |-> menu'[Len(menu')].name]
         /\ (\/ name = ""
             \/ category = ""
             \/ iconName = ""
             \/ price = <<>>
             \/ NonNumeric(price)) =>
              toast' = toast /\ menu' = menu]_vars

C21_Witness ==
    /\ toast = [kind |-> "success", name |-> "Tea"]
    /\ lastSubmit = "rejected"
    /\ price = <<"a", "b", "c">>
    /\ Len(menu) = Len(menuData) + 1

\* C22: handleOrderItem called with an item whose id is not in the catalog
\* leaves the selection as it was.
C22_ForeignToggleIsNoOp ==
    [][\A item \in OrderArguments :
         (handleOrderItemCall(item) /\ item.id \notin Ids(menu)) =>
             selectedItems' = selectedItems]_vars

\* cs holds no label twice
DistinctLabels(cs) == \A i, j \in 1..Len(cs) : cs[i] = cs[j] => i = j

\* C25: however calls of handleAddMenuItem and render passes interleave, the
\* catalog never holds two entries with the same id (given a startup
\* catalog without such a pair) and categories never holds a label twice.
C25_NoDuplicatesUnderInterleaving ==
    /\ DistinctIds(menuData) => DistinctIds(menu)
    /\ DistinctLabels(categories)

\* C26: a toggle is worked out from the selection as it is when the toggle
\* is applied, whatever the last render showed: it removes the item when an
\* entry with its id is in the selection and adds it otherwise, so that
\* toggles dispatched from one render pass never add an id twice and none
\* of them is lost.
C26_ToggleAgainstCurrentSet ==
    /\ [](/\ DistinctIds(selectedItems)
          /\ \A id \in Ids(menu) \cup oddToggled \cup {ForeignItem.id} :
               (id \in Ids(selectedItems)) <=> (id \in oddToggled))
    /\ [][\A item \in OrderArguments :
            handleOrderItemCall(item) =>
              IF item.id \in Ids(selectedItems)
              THEN /\ item.id \notin Ids(selectedItems')
                   /\ Len(selectedItems') = Len(selectedItems) - 1
              ELSE /\ item.id \in Ids(selectedItems')
                   /\ Len(selectedItems') = Len(selectedItems) + 1]_vars

C26_Witness ==
    /\ view.selectedItems = <<>>
    /\ Len(selectedItems) = 1
    /\ toast.kind = "removed"
    /\ toast.name # selectedItems[1].name
    /\ selectedItems[1].id \in Ids(menu)

\* C23: a toggle leaves the catalog, the categories and every activeIndex
\* as they were; an accepted or refused submit leaves the selection and
\* every activeIndex as they were; goToNext and goToPrevious leave the
\* catalog, the categories, the selection and the activeIndex of every other
\* category as they were; a viewport change and a cancel leave the catalog,
\* the categories and the selection as they were.
C23_Ownership ==
    [][/\ \A item \in RenderedItems :
            handleOrderItem(item) => UNCHANGED <<menu, categories, activeIndex>>
       /\ handleSubmit => UNCHANGED <<selectedItems, activeIndex>>
       /\ \A c \in CategoryLabels :
            (goToNext(c) \/ goToPrevious(c)) =>
               /\ UNCHANGED <<menu, categories, selectedItems>>
               /\ \A d \in CategoryLabels \ {c} :
                    activeIndex'[d] = activeIndex[d]
       /\ (viewportChange \/ handleCancel) =>
            UNCHANGED <<menu, categories, selectedItems>>]_vars

C23_Witness ==
    /\ categories = <<"Sides", "Drinks">>
    /\ activeIndex["Sides"] = 1
    /\ activeIndex["Drinks"] = 0
    /\ nextRun["Drinks"] > 0
    /\ toast.kind = "added"
    /\ ~addItemDialogOpen

\* the categories of the entries of items
CategoriesOf(items) == {items[i].category : i \in 1..Len(items)}

\* C24: in every render pass, and in the state every render pass is made
\* from, the category of every catalog entry is among the categories and
\* every category is that of some catalog entry: initialization and
\* handleAddMenuItem never show the catalog without the matching categories.
C24_CatalogAndCategoriesTogether ==
    /\ CategoriesOf(view.menu) = Range(view.categories)
    /\ CategoriesOf(menu) = Range(categories)

C24_Witness ==
    /\ menuData # <<>>
    /\ Len(view.menu) = Len(menuData) + 1
    /\ Len(menu) = Len(menuData) + 2
    /\ Cardinality(Range(view.categories)) >
         Cardinality(Range(uniqueCategories(menuData)))
    /\ Cardinality(Range(categories)) > Cardinality(Range(view.categories))

\* C29: every category that is rendered has at least one catalog entry, so
\* no section is drawn as the empty-category message of MenuCarousel or as
\* the nothing of MenuCategoryView.
C29_NoEmptyCategoryRendered ==
    \A c \in Range(view.categories) :
        /\ CountOf(view.menu, c) >= 1
        /\ Drawn(c).kind \in {"grid", "carousel"}
        /\ MenuCarousel(view.menu, c, view.selectedItems, activeIndex[c]).kind
             # "placeholder"
        /\ MenuCategoryView(view.menu, c, view.selectedItems).kind # "nothing"

C29_Witness ==
    /\ ~isMobile
    /\ Len(view.categories) = 2
    /\ CountOf(view.menu, view.categories[2]) = 1
    /\ \A c \in Range(view.categories) : Drawn(c).kind = "carousel"

\* C27 as stated: whenever the draft would be refused by handleSubmit (a
\* field empty, or a price that is no number), the Save button is disabled.
C27_SaveDisabledWhenInvalid ==
    addItemDialogOpen =>
        ((\/ name = ""
          \/ category = ""
          \/ iconName = ""
          \/ price = <<>>
          \/ NonNumeric(price)) => saveDisabled)

\* the glyph the icon table gives for the icon name n
TableGlyph(n) ==
    CHOOSE g \in {iconOptions[i].emoji : i \in 1..Len(iconOptions)} :
        \E i \in 1..Len(iconOptions) :
            iconOptions[i].name = n /\ iconOptions[i].emoji = g

\* C28: whenever the draft has an icon name, its glyph is the one the icon
\* table gives for that name, and every entry created from a draft carries
\* the glyph the table gives for its iconName.
C28_GlyphMatchesIconName ==
    /\ iconName # "" => selectedIcon = TableGlyph(iconName)
    /\ \A i \in 1..Len(menu) :
         i > Len(menuData) => menu[i].icon = TableGlyph(menu[i].iconName)

C28_Witness ==
    /\ Len(menu) > Len(menuData)
    /\ menu[Len(menu)].iconName = "egg"
    /\ iconName = "coffee"
    /\ ~addItemDialogOpen

\* C30: two toggles of an item that is not in the selection leave the
\* selection as it was; two toggles of an item that is in it leave the
\* selection with that item moved to the last place and the others in their
\* order.
C30_DoubleToggle ==
    \A item \in RenderedItems :
        LET twice == handleOrderItemUpdate(
                         handleOrderItemUpdate(selectedItems, item), item)
        IN  IF item.id \notin Ids(selectedItems)
            THEN twice = selectedItems
            ELSE \E k \in 1..Len(selectedItems) :
                    /\ selectedItems[k].id = item.id
                    /\ twice = Append(Without(selectedItems, k), item)

C30_Witness ==
    /\ Len(selectedItems) = 3
    /\ toast.kind = "added"
    /\ selectedItems[1] \in RenderedItems
    /\ handleOrderItemUpdate(handleOrderItemUpdate(selectedItems,
                                                   selectedItems[1]),
                             selectedItems[1]) # selectedItems

\* The item at place p (counted from 0) is in view when the carousel is at
\* offset a and shows `visible` items: a <= p < a + visible.
InView(a, p, visible) == a <= p /\ p < a + visible

\* C31: every item of a non-empty category can be brought into view by
\* navigation. For every place p in 0..n-1 there is an offset a in
\* 0..maxIndex with a <= p < a + visibleItems; at offset maxIndex the last
\* item is in view; at every offset the carousel takes, exactly visibleItems
\* items are in view. Every such offset is reached from 0 by goToNext calls:
\* after a run of k calls from offset 0 the offset is min(k, maxIndex),
\* goToNext can be called whenever the carousel is drawn, and each call below
\* maxIndex moves the offset by one and brings the first item after the
\* window into view.
C31_EveryItemCanBeShown ==
    /\ [](\A c \in Range(categories) :
            LET n       == CountOf(menu, c)
                visible == visibleItems(menu, c)
                mx      == maxIndex(menu, c)
            IN  n > 0 =>
                  /\ \A p \in 0..(n - 1) :
                        \E a \in 0..mx : InView(a, p, visible)
                  /\ InView(mx, n - 1, visible)
                  /\ activeIndex[c] \in 0..mx
                  /\ Cardinality({p \in 0..(n - 1) :
                                    InView(activeIndex[c], p, visible)})
                       = visible
                  /\ nextRun[c] >= 0 =>
                        activeIndex[c] = Min(nextRun[c], mx)
                  /\ ~isMobile => ENABLED goToNext(c))
    /\ [][\A c \in Range(categories) :
            (goToNext(c) /\ activeIndex[c] < maxIndex(menu, c)) =>
                /\ activeIndex'[c] = activeIndex[c] + 1
                /\ InView(activeIndex'[c],
                          activeIndex[c] + visibleItems(menu, c),
                          visibleItems(menu, c))
                /\ ~InView(activeIndex'[c], activeIndex[c],
                           visibleItems(menu, c))]_vars

C31_Witness ==
    /\ ~isMobile
    /\ categories = <<"Sides">>
    /\ CountOf(menu, "Sides") = 7
    /\ nextRun["Sides"] = 2
    /\ activeIndex["Sides"] = maxIndex(menu, "Sides")
    /\ InView(activeIndex["Sides"], 6, visibleItems(menu, "Sides"))
    /\ ~InView(0, 6, visibleItems(menu, "Sides"))

====
